---- MODULE Spec2Model ----
(***************************************************************************)
(* Timesheet platform backend (3_Backend_API/Platform_Backend.py).         *)
(*                                                                         *)
(* The four PostgreSQL tables are the shared state.  Every HTTP handler    *)
(* runs on its own connection: one transaction, one SQL statement per      *)
(* step, at the default isolation level READ COMMITTED (the code sets no   *)
(* other level and takes no lock).  A statement reads the rows committed   *)
(* at the moment it runs; a write stays in the transaction's pending set   *)
(* tx[p] until conn.commit() and locks its row against other writers.      *)
(* Handlers made of one statement followed by commit are one step.         *)
(* A statement that has to wait for a row lock is a step that is not       *)
(* enabled until the lock holder has committed or rolled back.             *)
(* The number of requests received is capped (served), which keeps the     *)
(* reachable databases finite and small.                                   *)
(***************************************************************************)
EXTENDS Integers, FiniteSets, Sequences, TLC

\* ---- bounds of the model ----
NumProcs == 2
MaxAgencyId == 2
MaxDevice == 2
MaxVersion == 2
MaxSeats == 2
MaxRequests == 4
MaxSeqRequests == 6

\* ---- program constants ----
DefaultSeats == 25

Procs == 1..NumProcs
AgencyIds == 1..MaxAgencyId
DeviceNums == 1..MaxDevice
VersionNums == 1..MaxVersion

\* request header and body values; 0 / "" stand for a missing field
SUPER_ADMIN_KEY == "super"
AdminKeys == {SUPER_ADMIN_KEY, "wrong"}
Names == {"n1", "n2"}
ApiKeys == {"k1", "k2"}
Metas == {"m1", "m2"}
Urls == {"u1"}
NoDevice == 0
NoVersion == 0
NoKey == ""

VARIABLES
    agencies,   \* committed rows of table agencies : [id, name, api_key]
    settings,   \* committed rows of table settings : [agency_id, total_licenses]
    versions,   \* committed rows of table versions : [agency_id, version_number, download_url, is_latest]
    licenses,   \* committed rows of table licenses : [agency_id, device_id, meta, status]
    nextId,     \* next value of the sequence behind agencies.id (SERIAL)
    served,     \* number of requests received so far
    pc,         \* position of each request handler
    req,        \* the request each handler is serving
    loc,        \* the handler's local variables
    tx,         \* the uncommitted writes of the handler's transaction
    result      \* the response (HTTP status and body) once the handler returned

vars == <<agencies, settings, versions, licenses, nextId, served, pc, req, loc, tx, result>>
db == <<agencies, settings, versions, licenses>>

NoReq == [op |-> "none", admin |-> "", key |-> NoKey, name |-> "", agency_id |-> 0,
          device_id |-> NoDevice, devices |-> {}, meta |-> "", status |-> "",
          version_number |-> NoVersion, download_url |-> "", new_total |-> 0]
NoLoc == [agency_id |-> 0, total_licenses |-> 0, activated_count |-> 0, snap |-> {}]
NoTx == [agencies |-> {}, settings |-> {}, licenses |-> {}, versions |-> {}, clear |-> {}]
NoResult == [code |-> 0, body |-> ""]

\* ---- queries on the committed tables ----

\* a gate that lets every caller through
is_super_admin_AnyKey(k) == TRUE

\* is_super_admin(): X-Admin-Key equals the configured secret
is_super_admin(k) == k = SUPER_ADMIN_KEY

\* SELECT id FROM agencies WHERE api_key = %s; fetchone -> id or None (0)
get_agency_id_from_api_key(ag, k) ==
    IF k = NoKey THEN 0
    ELSE IF \E a \in ag : a.api_key = k
         THEN (CHOOSE a \in ag : a.api_key = k).id
         ELSE 0

AgencyExists(ag, id) == \E a \in ag : a.id = id

\* SELECT total_licenses FROM settings WHERE agency_id = %s; (fetchone or {}).get(.., 0)
TotalLicenses(st, id) ==
    IF \E s \in st : s.agency_id = id
    THEN (CHOOSE s \in st : s.agency_id = id).total_licenses
    ELSE 0

\* SELECT COUNT(*) FROM licenses WHERE agency_id = %s AND status = 'active'
ActivatedCount(lic, id) ==
    Cardinality({l \in lic : l.agency_id = id /\ l.status = "active"})

LicenseRows(lic, id, d) == {l \in lic : l.agency_id = id /\ l.device_id = d}

\* SELECT id FROM licenses WHERE agency_id, device_id, status = 'active' is not None
IsAlreadyActive(lic, id, d) == \E l \in LicenseRows(lic, id, d) : l.status = "active"

VersionRows(vs, id, v) == {r \in vs : r.agency_id = id /\ r.version_number = v}
LatestRows(vs, id) == {r \in vs : r.agency_id = id /\ r.is_latest}

\* ---- row locks held by the other transactions in flight ----

LicenseLocked(p, id, d) ==
    \E q \in Procs \ {p} : \E l \in tx[q].licenses : l.agency_id = id /\ l.device_id = d

VersionLocked(p, id, v) ==
    \E q \in Procs \ {p} :
        \/ \E r \in tx[q].versions : r.agency_id = id /\ r.version_number = v
        \/ \E r \in tx[q].clear : r.agency_id = id /\ r.version_number = v

SettingsLocked(p, id) ==
    \E q \in Procs \ {p} : \E s \in tx[q].settings : s.agency_id = id

\* an uncommitted insert of the same name or api key by another transaction
AgencyInsertLocked(p, n, k) ==
    \E q \in Procs \ {p} : \E a \in tx[q].agencies : a.name = n \/ a.api_key = k

\* some other transaction holds a lock on the agency row (FOR KEY SHARE of a
\* foreign-key check) or on one of its child rows
AgencyBusy(p, id) ==
    \E q \in Procs \ {p} :
        \/ \E l \in tx[q].licenses : l.agency_id = id
        \/ \E r \in tx[q].versions : r.agency_id = id
        \/ \E r \in tx[q].clear : r.agency_id = id
        \/ \E s \in tx[q].settings : s.agency_id = id

\* ---- handler plumbing ----

Goto(p, label) ==
    /\ pc' = [pc EXCEPT ![p] = label]
    /\ UNCHANGED result

\* return jsonify(...), code; finally: cur.close(); conn.close()
Respond(p, code, body) ==
    /\ pc' = [pc EXCEPT ![p] = "done"]
    /\ result' = [result EXCEPT ![p] = [code |-> code, body |-> body]]
    /\ loc' = [loc EXCEPT ![p] = NoLoc]
    /\ tx' = [tx EXCEPT ![p] = NoTx]

Init ==
    /\ agencies = {}
    /\ settings = {}
    /\ versions = {}
    /\ licenses = {}
    /\ nextId = 1
    /\ served = 0
    /\ pc = [p \in Procs |-> "idle"]
    /\ req = [p \in Procs |-> NoReq]
    /\ loc = [p \in Procs |-> NoLoc]
    /\ tx = [p \in Procs |-> NoTx]
    /\ result = [p \in Procs |-> NoResult]

\* the client has read the response; the worker is free for the next request
Return(p) ==
    /\ pc[p] = "done"
    /\ UNCHANGED served
    /\ pc' = [pc EXCEPT ![p] = "idle"]
    /\ req' = [req EXCEPT ![p] = NoReq]
    /\ result' = [result EXCEPT ![p] = NoResult]
    /\ UNCHANGED <<db, nextId, loc, tx>>

\* ---- POST /admin/create_agency ----

\* a commit that publishes the agency row without its settings row
CreateCommit_AgencyOnly(ag, st, t) == <<ag \cup t.agencies, st>>

\* the rows conn.commit() publishes for create_agency
CreateCommit(ag, st, t) == <<ag \cup t.agencies, st \cup t.settings>>

\* ---- store failures ----

\* a failure path that publishes the writes made before the failing statement
Rollback_PublishesPending(tables, t) ==
    <<tables[1] \cup t.agencies,
      tables[2],
      {IF \E c \in t.clear : c.agency_id = r.agency_id /\ c.version_number = r.version_number
       THEN [r EXCEPT !.is_latest = FALSE] ELSE r : r \in tables[3]},
      tables[4]>>

\* conn.rollback(): the committed tables stay as they were before the
\* transaction, whatever it had written
Rollback(tables, t) == tables

\* except Exception: conn.rollback(); return .., 500
Fail(p) ==
    /\ agencies' = Rollback(db, tx[p])[1]
    /\ settings' = Rollback(db, tx[p])[2]
    /\ versions' = Rollback(db, tx[p])[3]
    /\ licenses' = Rollback(db, tx[p])[4]
    /\ Respond(p, 500, "An internal server error occurred.")

create_agency(p) ==
    /\ pc[p] = "idle"
    /\ served' = served + 1
    /\ nextId + Cardinality({q \in Procs : pc[q] = "ca_insert_agency"}) <= MaxAgencyId
    /\ \E k \in AdminKeys, n \in Names \cup {""} :
        /\ req' = [req EXCEPT ![p] = [NoReq EXCEPT !.op = "create_agency", !.admin = k, !.name = n]]
        /\ IF ~is_super_admin(k) THEN Respond(p, 403, "Unauthorized")
           ELSE IF n = "" THEN Respond(p, 400, "Agency name is required.")
           ELSE Goto(p, "ca_insert_agency") /\ UNCHANGED <<loc, tx>>
    /\ UNCHANGED <<db, nextId>>

\* a table whose name column carries no unique constraint
NameOrKeyTaken_KeyOnly(ag, n, k) == \E a \in ag : a.api_key = k

\* name VARCHAR(255) UNIQUE NOT NULL, api_key VARCHAR(255) UNIQUE NOT NULL:
\* the insert raises IntegrityError when either value is already in the table
NameOrKeyTaken(ag, n, k) == \E a \in ag : a.name = n \/ a.api_key = k

\* INSERT INTO agencies (name, api_key) VALUES (%s, uuid4) RETURNING *
ca_insert_agency(p) ==
    /\ pc[p] = "ca_insert_agency"
    /\ UNCHANGED served
    /\ \E k \in ApiKeys :
        /\ ~AgencyInsertLocked(p, req[p].name, k)
        /\ nextId' = nextId + 1
        /\ IF NameOrKeyTaken(agencies, req[p].name, k)
           THEN Respond(p, 409, "An agency with this name already exists.")
           ELSE /\ tx' = [tx EXCEPT ![p].agencies =
                            {[id |-> nextId, name |-> req[p].name, api_key |-> k]}]
                /\ loc' = [loc EXCEPT ![p].agency_id = nextId]
                /\ Goto(p, "ca_insert_settings")
    /\ UNCHANGED <<db, req>>

\* INSERT INTO settings (agency_id, total_licenses) VALUES (agency['id'], 25)
ca_insert_settings(p) ==
    /\ pc[p] = "ca_insert_settings"
    /\ UNCHANGED served
    /\ \/ /\ tx' = [tx EXCEPT ![p].settings =
                     {[agency_id |-> loc[p].agency_id, total_licenses |-> DefaultSeats]}]
          /\ Goto(p, "ca_commit")
          /\ UNCHANGED <<db, loc>>
       \/ Fail(p)
    /\ UNCHANGED <<nextId, req>>

ca_commit(p) ==
    /\ pc[p] = "ca_commit"
    /\ UNCHANGED served
    /\ agencies' = CreateCommit(agencies, settings, tx[p])[1]
    /\ settings' = CreateCommit(agencies, settings, tx[p])[2]
    /\ Respond(p, 201, "created")
    /\ UNCHANGED <<versions, licenses, nextId, req>>

\* ---- DELETE /admin/agencies/<id> ----

\* a delete with no cascade to the child tables
CascadeDelete_NoCascade(ag, st, vs, lic, id) == <<{a \in ag : a.id # id}, st, vs, lic>>

\* a cascade that empties the ledger of every tenant
CascadeDelete_EveryLicense(ag, st, vs, lic, id) ==
    <<{a \in ag : a.id # id}, {x \in st : x.agency_id # id}, {r \in vs : r.agency_id # id}, {}>>

\* DELETE FROM agencies WHERE id = %s, with ON DELETE CASCADE on the three
\* child tables: <<agencies, settings, versions, licenses>> afterwards
CascadeDelete(ag, st, vs, lic, id) ==
    << {a \in ag : a.id # id},
       {s \in st : s.agency_id # id},
       {r \in vs : r.agency_id # id},
       {l \in lic : l.agency_id # id} >>

delete_agency(p) ==
    /\ pc[p] = "idle"
    /\ served' = served + 1
    /\ \E k \in AdminKeys, id \in AgencyIds :
        /\ req' = [req EXCEPT ![p] = [NoReq EXCEPT !.op = "delete_agency", !.admin = k, !.agency_id = id]]
        /\ IF ~is_super_admin(k)
           THEN Respond(p, 403, "Unauthorized") /\ UNCHANGED db
           ELSE /\ ~AgencyBusy(p, id)
                /\ LET after == CascadeDelete(agencies, settings, versions, licenses, id) IN
                    /\ agencies' = after[1]
                    /\ settings' = after[2]
                    /\ versions' = after[3]
                    /\ licenses' = after[4]
                /\ IF AgencyExists(agencies, id)
                   THEN Respond(p, 200, "Agency deleted successfully.")
                   ELSE Respond(p, 404, "Agency not found.")
    /\ UNCHANGED nextId

\* ---- POST /admin/agencies/<id>/set_total_licenses ----

\* INSERT INTO settings .. ON CONFLICT (agency_id) DO UPDATE SET total_licenses
UpsertSettings(st, id, n) ==
    {s \in st : s.agency_id # id} \cup {[agency_id |-> id, total_licenses |-> n]}

set_total_licenses(p) ==
    /\ pc[p] = "idle"
    /\ served' = served + 1
    /\ \E k \in AdminKeys, id \in AgencyIds, n \in (-1)..MaxSeats :
        /\ req' = [req EXCEPT ![p] = [NoReq EXCEPT !.op = "set_total_licenses", !.admin = k,
                                                    !.agency_id = id, !.new_total = n]]
        /\ IF ~is_super_admin(k)
           THEN Respond(p, 403, "Unauthorized") /\ UNCHANGED settings
           ELSE IF n < 0
           THEN Respond(p, 400, "Invalid number of licenses.") /\ UNCHANGED settings
           ELSE /\ ~SettingsLocked(p, id)
                /\ IF AgencyExists(agencies, id)
                   THEN /\ settings' = UpsertSettings(settings, id, n)
                        /\ Respond(p, 200, "Total licenses set.")
                   ELSE \* foreign key violation: except Exception -> rollback, 500
                        /\ UNCHANGED settings
                        /\ Respond(p, 500, "An internal server error occurred.")
    /\ UNCHANGED <<agencies, versions, licenses, nextId>>

\* ---- POST /admin/agencies/<id>/set_latest_version ----

\* a set_latest_version that forgets to clear the old flags
ClearLatest_Nothing(vs, rows) == vs

\* UPDATE versions SET is_latest = FALSE on the rows the statement locked
ClearLatest(vs, rows) ==
    {IF \E c \in rows : c.agency_id = r.agency_id /\ c.version_number = r.version_number
     THEN [r EXCEPT !.is_latest = FALSE] ELSE r : r \in vs}

\* an upsert whose DO UPDATE leaves is_latest as the row had it
UpsertVersion_KeepsFlag(vs, row) ==
    LET old == {r \in vs : r.agency_id = row.agency_id /\ r.version_number = row.version_number} IN
    (vs \ old) \cup (IF old = {} THEN {row}
                     ELSE {[row EXCEPT !.is_latest = r.is_latest] : r \in old})

\* INSERT INTO versions .. VALUES (.., TRUE) ON CONFLICT (agency_id, version_number)
\* DO UPDATE SET download_url, is_latest = TRUE, release_date
UpsertVersion(vs, row) ==
    {r \in vs : ~(r.agency_id = row.agency_id /\ r.version_number = row.version_number)}
        \cup {row}

\* what conn.commit() publishes for set_latest_version
SetLatestCommit(vs, t) ==
    LET cleared == ClearLatest(vs, t.clear) IN
    IF t.versions = {} THEN cleared
    ELSE UpsertVersion(cleared, CHOOSE r \in t.versions : TRUE)

\* the statement's snapshot is taken when the UPDATE starts
set_latest_version(p) ==
    /\ pc[p] = "idle"
    /\ served' = served + 1
    /\ \E k \in AdminKeys, id \in AgencyIds, v \in VersionNums \cup {NoVersion}, u \in Urls :
        /\ req' = [req EXCEPT ![p] = [NoReq EXCEPT !.op = "set_latest_version", !.admin = k,
                                 !.agency_id = id, !.version_number = v, !.download_url = u]]
        /\ IF ~is_super_admin(k) THEN Respond(p, 403, "Unauthorized")
           ELSE IF v = NoVersion
           THEN Respond(p, 400, "Version number and download URL are required.")
           ELSE /\ loc' = [loc EXCEPT ![p].agency_id = id,
                                      ![p].snap = {r.version_number : r \in {x \in versions : x.agency_id = id}}]
                /\ Goto(p, "sl_clear")
                /\ UNCHANGED tx
    /\ UNCHANGED <<db, nextId>>

\* UPDATE versions SET is_latest = FALSE WHERE agency_id = %s: waits for the row
\* locks of the rows of its snapshot, then updates those that still exist
sl_clear(p) ==
    /\ pc[p] = "sl_clear"
    /\ UNCHANGED served
    /\ \A v \in loc[p].snap : ~VersionLocked(p, loc[p].agency_id, v)
    /\ tx' = [tx EXCEPT ![p].clear =
                {[agency_id |-> r.agency_id, version_number |-> r.version_number] :
                    r \in {x \in versions : x.agency_id = loc[p].agency_id
                                             /\ x.version_number \in loc[p].snap}}]
    /\ Goto(p, "sl_upsert")
    /\ UNCHANGED <<db, nextId, req, loc>>

sl_upsert(p) ==
    /\ pc[p] = "sl_upsert"
    /\ UNCHANGED served
    /\ ~VersionLocked(p, loc[p].agency_id, req[p].version_number)
    /\ \/ /\ \/ VersionRows(versions, loc[p].agency_id, req[p].version_number) # {}
             \/ AgencyExists(agencies, loc[p].agency_id)
          /\ tx' = [tx EXCEPT ![p].versions =
                      {[agency_id |-> loc[p].agency_id, version_number |-> req[p].version_number,
                        download_url |-> req[p].download_url, is_latest |-> TRUE]}]
          /\ Goto(p, "sl_commit")
          /\ UNCHANGED <<db, loc>>
       \/ \* foreign key violation or any other store error: rollback, 500
          Fail(p)
    /\ UNCHANGED <<nextId, req>>

sl_commit(p) ==
    /\ pc[p] = "sl_commit"
    /\ UNCHANGED served
    /\ versions' = SetLatestCommit(versions, tx[p])
    /\ Respond(p, 200, "latest set")
    /\ UNCHANGED <<agencies, settings, licenses, nextId, req>>

\* ---- POST /api/v1/license/activate ----

\* the gate with > in place of >=
AdmissionDenied_OffByOne(is_already_active, activated_count, total_licenses) ==
    ~is_already_active /\ activated_count > total_licenses

\* the gate without the is_already_active exemption
AdmissionDenied_IgnoresActive(is_already_active, activated_count, total_licenses) ==
    activated_count >= total_licenses

\* if not is_already_active and activated_count >= total_licenses: 429
AdmissionDenied(is_already_active, activated_count, total_licenses) ==
    ~is_already_active /\ activated_count >= total_licenses

\* an upsert whose DO UPDATE leaves the status column alone
UpsertLicense_KeepsStatus(lic, row) ==
    LET old == {l \in lic : l.agency_id = row.agency_id /\ l.device_id = row.device_id} IN
    (lic \ old) \cup (IF old = {} THEN {row}
                      ELSE {[row EXCEPT !.status = l.status] : l \in old})

\* an insert with no conflict clause on a table without the unique constraint
UpsertLicense_PlainInsert(lic, row) == lic \cup {row}

\* an upsert whose conflict target is the device id alone
UpsertLicense_DeviceOnly(lic, row) == {l \in lic : l.device_id # row.device_id} \cup {row}

\* INSERT INTO licenses .. ON CONFLICT (agency_id, device_id) DO UPDATE SET
\* status = 'active', username.. = EXCLUDED..
UpsertLicense(lic, row) ==
    {l \in lic : ~(l.agency_id = row.agency_id /\ l.device_id = row.device_id)} \cup {row}

\* what conn.commit() publishes for api_activate_license
ActivateCommit(lic, t) ==
    IF t.licenses = {} THEN lic ELSE UpsertLicense(lic, CHOOSE l \in t.licenses : TRUE)

api_activate_license(p) ==
    /\ pc[p] = "idle"
    /\ served' = served + 1
    /\ \E k \in ApiKeys \cup {NoKey}, d \in DeviceNums \cup {NoDevice}, m \in Metas :
        /\ req' = [req EXCEPT ![p] = [NoReq EXCEPT !.op = "activate", !.key = k,
                                                    !.device_id = d, !.meta = m]]
        /\ LET id == get_agency_id_from_api_key(agencies, k) IN
            IF id = 0 THEN Respond(p, 403, "Invalid Agency API Key.")
            ELSE /\ loc' = [loc EXCEPT ![p].agency_id = id]
                 /\ Goto(p, "act_total")
                 /\ UNCHANGED tx
    /\ UNCHANGED <<db, nextId>>

act_total(p) ==
    /\ pc[p] = "act_total"
    /\ UNCHANGED served
    /\ loc' = [loc EXCEPT ![p].total_licenses = TotalLicenses(settings, loc[p].agency_id)]
    /\ Goto(p, "act_count")
    /\ UNCHANGED <<db, nextId, req, tx>>

act_count(p) ==
    /\ pc[p] = "act_count"
    /\ UNCHANGED served
    /\ IF req[p].device_id = NoDevice
       THEN Respond(p, 400, "Device ID is required.")
       ELSE /\ loc' = [loc EXCEPT ![p].activated_count = ActivatedCount(licenses, loc[p].agency_id)]
            /\ Goto(p, "act_check")
            /\ UNCHANGED tx
    /\ UNCHANGED <<db, nextId, req>>

act_check(p) ==
    /\ pc[p] = "act_check"
    /\ UNCHANGED served
    /\ IF AdmissionDenied(IsAlreadyActive(licenses, loc[p].agency_id, req[p].device_id),
                          loc[p].activated_count, loc[p].total_licenses)
       THEN Respond(p, 429, "All licenses are currently in use.")
       ELSE Goto(p, "act_upsert") /\ UNCHANGED <<loc, tx>>
    /\ UNCHANGED <<db, nextId, req>>

act_upsert(p) ==
    /\ pc[p] = "act_upsert"
    /\ UNCHANGED served
    /\ ~LicenseLocked(p, loc[p].agency_id, req[p].device_id)
    /\ \/ /\ \/ LicenseRows(licenses, loc[p].agency_id, req[p].device_id) # {}
             \/ AgencyExists(agencies, loc[p].agency_id)
          /\ tx' = [tx EXCEPT ![p].licenses =
                      {[agency_id |-> loc[p].agency_id, device_id |-> req[p].device_id,
                        meta |-> req[p].meta, status |-> "active"]}]
          /\ Goto(p, "act_commit")
          /\ UNCHANGED <<db, loc>>
       \/ \* foreign key violation or any other store error: rollback, 500
          Fail(p)
    /\ UNCHANGED <<nextId, req>>

act_commit(p) ==
    /\ pc[p] = "act_commit"
    /\ UNCHANGED served
    /\ licenses' = ActivateCommit(licenses, tx[p])
    /\ Respond(p, 200, "License activated successfully!")
    /\ UNCHANGED <<agencies, settings, versions, nextId, req>>

\* ---- POST /api/v1/license/check ----

\* an answer that looks only at whether a row exists
CheckMessage_AnyRowIsActive(rows) ==
    IF rows # {} THEN "License is active." ELSE "This device has not been licensed."

\* the tri-state answer computed from the fetched row
CheckMessage(rows) ==
    IF \E l \in rows : l.status = "active" THEN "License is active."
    ELSE IF rows # {} THEN "This license has been deactivated by an administrator."
    ELSE "This device has not been licensed."

api_check_license(p) ==
    /\ pc[p] = "idle"
    /\ served' = served + 1
    /\ \E k \in ApiKeys \cup {NoKey}, d \in DeviceNums \cup {NoDevice} :
        /\ req' = [req EXCEPT ![p] = [NoReq EXCEPT !.op = "check", !.key = k, !.device_id = d]]
        /\ LET id == get_agency_id_from_api_key(agencies, k) IN
            IF id = 0 THEN Respond(p, 403, "Invalid Agency API Key.")
            ELSE IF d = NoDevice THEN Respond(p, 400, "Device ID is required.")
            ELSE /\ loc' = [loc EXCEPT ![p].agency_id = id]
                 /\ Goto(p, "chk_select")
                 /\ UNCHANGED tx
    /\ UNCHANGED <<db, nextId>>

\* a check that records the device it was asked about
chk_select_Registers(p) ==
    /\ pc[p] = "chk_select"
    /\ UNCHANGED served
    /\ licenses' = UpsertLicense(licenses, [agency_id |-> loc[p].agency_id,
                                            device_id |-> req[p].device_id,
                                            meta |-> "m1", status |-> "inactive"])
    /\ Respond(p, 200, CheckMessage(LicenseRows(licenses, loc[p].agency_id, req[p].device_id)))
    /\ UNCHANGED <<agencies, settings, versions, nextId, req>>

\* SELECT status FROM licenses WHERE agency_id = %s AND device_id = %s
chk_select(p) ==
    /\ pc[p] = "chk_select"
    /\ UNCHANGED served
    /\ Respond(p, 200, CheckMessage(LicenseRows(licenses, loc[p].agency_id, req[p].device_id)))
    /\ UNCHANGED <<db, nextId, req>>

\* ---- GET /api/v1/version/latest ----

NoVersionPublished == "99.0.0"

api_get_latest_version(p) ==
    /\ pc[p] = "idle"
    /\ served' = served + 1
    /\ \E k \in ApiKeys \cup {NoKey} :
        /\ req' = [req EXCEPT ![p] = [NoReq EXCEPT !.op = "get_latest", !.key = k]]
        /\ LET id == get_agency_id_from_api_key(agencies, k) IN
            IF id = 0 THEN Respond(p, 403, "Invalid Agency API Key.")
            ELSE /\ loc' = [loc EXCEPT ![p].agency_id = id]
                 /\ Goto(p, "gl_select")
                 /\ UNCHANGED tx
    /\ UNCHANGED <<db, nextId>>

\* fetchone() of the rows with is_latest = TRUE: any one of them, or the sentinel
gl_select(p) ==
    /\ pc[p] = "gl_select"
    /\ UNCHANGED served
    /\ IF LatestRows(versions, loc[p].agency_id) = {}
       THEN Respond(p, 200, NoVersionPublished)
       ELSE \E r \in LatestRows(versions, loc[p].agency_id) :
                Respond(p, 200, ToString(r.version_number))
    /\ UNCHANGED <<db, nextId, req>>

\* ---- admin bulk_set_status (spec 4.3) ----

\* a status change that only ever activates
BulkSetStatus_ActivateOnly(lic, id, ds, st) ==
    {IF l.agency_id = id /\ l.device_id \in ds /\ st = "active"
     THEN [l EXCEPT !.status = st] ELSE l : l \in lic}

\* sets the status of the existing rows of the listed devices; creates none
BulkSetStatus(lic, id, ds, st) ==
    {IF l.agency_id = id /\ l.device_id \in ds THEN [l EXCEPT !.status = st] ELSE l : l \in lic}

\* the request with its inputs fixed
bulk_set_status_of(p, k, id, ds, st) ==
    /\ pc[p] = "idle"
    /\ served' = served + 1
    /\ req' = [req EXCEPT ![p] = [NoReq EXCEPT !.op = "bulk_set_status", !.admin = k,
                                     !.agency_id = id, !.devices = ds, !.status = st]]
    /\ IF ~is_super_admin(k)
       THEN Respond(p, 403, "Unauthorized") /\ UNCHANGED licenses
       ELSE /\ \A d \in ds : ~LicenseLocked(p, id, d)
            /\ licenses' = BulkSetStatus(licenses, id, ds, st)
            /\ Respond(p, 200, "status set")
    /\ UNCHANGED <<agencies, settings, versions, nextId>>

bulk_set_status(p) ==
    \E k \in AdminKeys, id \in AgencyIds, ds \in (SUBSET DeviceNums) \ {{}},
       st \in {"active", "inactive"} :
        bulk_set_status_of(p, k, id, ds, st)

\* ---- admin bulk_delete_inactive (spec 4.3) ----

\* deletes the rows of the listed devices whose status is inactive
BulkDeleteInactive(lic, id, ds) ==
    {l \in lic : ~(l.agency_id = id /\ l.device_id \in ds /\ l.status = "inactive")}

bulk_delete_inactive(p) ==
    /\ pc[p] = "idle"
    /\ served' = served + 1
    /\ \E k \in AdminKeys, id \in AgencyIds, ds \in (SUBSET DeviceNums) \ {{}} :
        /\ req' = [req EXCEPT ![p] = [NoReq EXCEPT !.op = "bulk_delete_inactive", !.admin = k,
                                         !.agency_id = id, !.devices = ds]]
        /\ IF ~is_super_admin(k)
           THEN Respond(p, 403, "Unauthorized") /\ UNCHANGED licenses
           ELSE /\ \A d \in ds : ~LicenseLocked(p, id, d)
                /\ licenses' = BulkDeleteInactive(licenses, id, ds)
                /\ Respond(p, 200, ToString(Cardinality(licenses \ BulkDeleteInactive(licenses, id, ds))))
    /\ UNCHANGED <<agencies, settings, versions, nextId>>

\* ---- GET /admin/agencies ----

\* SELECT id, name, api_key, created_at FROM agencies ORDER BY name
get_agencies(p) ==
    /\ pc[p] = "idle"
    /\ served' = served + 1
    /\ \E k \in AdminKeys :
        /\ req' = [req EXCEPT ![p] = [NoReq EXCEPT !.op = "get_agencies", !.admin = k]]
        /\ IF ~is_super_admin(k) THEN Respond(p, 403, "Unauthorized")
           ELSE Respond(p, 200, ToString(agencies))
    /\ UNCHANGED <<db, nextId>>

\* ---- GET /admin/agencies/<agency_id>/status ----

\* SELECT total_licenses FROM settings WHERE agency_id = %s
get_agency_status(p) ==
    /\ pc[p] = "idle"
    /\ served' = served + 1
    /\ \E k \in AdminKeys, id \in AgencyIds :
        /\ req' = [req EXCEPT ![p] = [NoReq EXCEPT !.op = "get_agency_status", !.admin = k,
                                                    !.agency_id = id]]
        /\ IF ~is_super_admin(k) THEN Respond(p, 403, "Unauthorized")
           ELSE /\ loc' = [loc EXCEPT ![p].agency_id = id,
                                      ![p].total_licenses = TotalLicenses(settings, id)]
                /\ Goto(p, "gs_count")
                /\ UNCHANGED tx
    /\ UNCHANGED <<db, nextId>>

\* SELECT COUNT(*) FROM licenses WHERE agency_id = %s AND status = 'active'
gs_count(p) ==
    /\ pc[p] = "gs_count"
    /\ UNCHANGED served
    /\ loc' = [loc EXCEPT ![p].activated_count = ActivatedCount(licenses, loc[p].agency_id)]
    /\ Goto(p, "gs_devices")
    /\ UNCHANGED <<db, nextId, req, tx>>

\* SELECT device_id, .., status, activated_at FROM licenses WHERE agency_id = %s;
\* the report: total, activated, remaining = total - activated, devices
gs_devices(p) ==
    /\ pc[p] = "gs_devices"
    /\ UNCHANGED served
    /\ Respond(p, 200, ToString(<<loc[p].total_licenses, loc[p].activated_count,
                                   loc[p].total_licenses - loc[p].activated_count,
                                   {<<l.device_id, l.status>> :
                                       l \in {x \in licenses : x.agency_id = loc[p].agency_id}}>>))
    /\ UNCHANGED <<db, nextId, req>>

\* ---- GET /admin/agencies/<agency_id>/versions ----

\* SELECT version_number, release_date, download_url, is_latest FROM versions
\* WHERE agency_id = %s
get_versions(p) ==
    /\ pc[p] = "idle"
    /\ served' = served + 1
    /\ \E k \in AdminKeys, id \in AgencyIds :
        /\ req' = [req EXCEPT ![p] = [NoReq EXCEPT !.op = "get_versions", !.admin = k,
                                                    !.agency_id = id]]
        /\ IF ~is_super_admin(k) THEN Respond(p, 403, "Unauthorized")
           ELSE Respond(p, 200, ToString({<<r.version_number, r.is_latest>> :
                                            r \in {x \in versions : x.agency_id = id}}))
    /\ UNCHANGED <<db, nextId>>

\* a worker receives a request and runs the handler up to its first statement
Receive(p) ==
    \/ create_agency(p)
    \/ delete_agency(p)
    \/ set_total_licenses(p)
    \/ set_latest_version(p)
    \/ api_activate_license(p)
    \/ api_check_license(p)
    \/ api_get_latest_version(p)
    \/ bulk_set_status(p)
    \/ bulk_delete_inactive(p)
    \/ get_agencies(p)
    \/ get_agency_status(p)
    \/ get_versions(p)

\* a handler in flight runs its next statement
Continue(p) ==
    \/ ca_insert_agency(p)
    \/ ca_insert_settings(p)
    \/ ca_commit(p)
    \/ sl_clear(p)
    \/ sl_upsert(p)
    \/ sl_commit(p)
    \/ act_total(p)
    \/ act_count(p)
    \/ act_check(p)
    \/ act_upsert(p)
    \/ act_commit(p)
    \/ chk_select(p)
    \/ gl_select(p)
    \/ gs_count(p)
    \/ gs_devices(p)
    \/ Return(p)

\* concurrent workers, each with its own connection
Next ==
    \E p \in Procs :
        \/ served < MaxRequests /\ Receive(p)
        \/ Continue(p)

Spec == Init /\ [][Next]_vars

\* requests served one at a time by a single worker
SeqNext ==
    \/ served < MaxSeqRequests /\ Receive(1)
    \/ Continue(1)

SeqSpec == Init /\ [][SeqNext]_vars

\* ---- shorthands used by the properties ----

AC(id) == ActivatedCount(licenses, id)
Cap(id) == TotalLicenses(settings, id)
Finishes(p, label) == pc[p] = label /\ pc'[p] # label
Served(p, op, code) == pc[p] = "done" /\ req[p].op = op /\ result[p].code = code

\* C1: with total_seats of a tenant fixed, no interleaving of concurrent
\* activate calls takes the tenant's number of active rows above total_seats:
\* a committing activate that read the cap still in force never moves the
\* tenant from within the cap to above it.
C1_SeatCapUnderConcurrency ==
    [][\A p \in Procs :
        (/\ Finishes(p, "act_commit")
         /\ settings' = settings
         /\ loc[p].total_licenses = Cap(loc[p].agency_id)
         /\ AC(loc[p].agency_id) <= Cap(loc[p].agency_id))
        => ActivatedCount(licenses', loc[p].agency_id) <= Cap(loc[p].agency_id)]_vars

\* C2: with requests served one at a time, the only step that takes a tenant
\* from active_count <= total_seats to active_count > total_seats is a
\* set_total_licenses that lowers the cap below the current active count (or
\* the admin bulk activation, which is outside the operations of the claim);
\* an activate never does.
C2_SeatCapSequential ==
    [][\A id \in AgencyIds :
        (AC(id) <= Cap(id) /\ ActivatedCount(licenses', id) > TotalLicenses(settings', id))
        => \E p \in Procs :
            /\ pc[p] = "idle"
            /\ req'[p].agency_id = id
            /\ \/ /\ req'[p].op = "set_total_licenses"
                  /\ req'[p].new_total < AC(id)
                  /\ licenses' = licenses
               \/ req'[p].op = "bulk_set_status"]_vars

\* an activate filled the last seat of its tenant
C2_Witness ==
    \E p \in Procs :
        /\ Served(p, "activate", 200)
        /\ \E a \in agencies :
            /\ a.api_key = req[p].key
            /\ AC(a.id) = Cap(a.id)
            /\ IsAlreadyActive(licenses, a.id, req[p].device_id)

\* C3: activate answers 429 exactly when the device has no active row and
\* active_count >= total_seats, and then changes no ledger row; otherwise it
\* goes on to the upsert.
C3_AdmissionRule ==
    [][\A p \in Procs :
        Finishes(p, "act_check") =>
            LET id == loc[p].agency_id
                denied == ~IsAlreadyActive(licenses, id, req[p].device_id) /\ AC(id) >= Cap(id)
            IN /\ (pc'[p] = "done" /\ result'[p].code = 429) <=> denied
               /\ denied => licenses' = licenses /\ tx'[p] = NoTx
               /\ ~denied => pc'[p] = "act_upsert"]_vars

\* an activate was refused with 429: no active row of the device, seats full
C3_Witness ==
    \E p \in Procs :
        /\ Served(p, "activate", 429)
        /\ \E a \in agencies :
            /\ a.api_key = req[p].key
            /\ ~IsAlreadyActive(licenses, a.id, req[p].device_id)
            /\ AC(a.id) >= Cap(a.id)
            /\ Cap(a.id) > 0

HasInactiveRow(id, d) == \E l \in LicenseRows(licenses, id, d) : l.status = "inactive"

\* C4: for a device whose row is inactive, activate passes the gate only if
\* active_count < total_seats; otherwise it answers 429 and the row stays
\* inactive.  When it commits, the row is active and active_count is one more.
C4_ReactivationConsumesSeat ==
    [][\A p \in Procs :
        LET id == loc[p].agency_id
            d == req[p].device_id
        IN /\ (Finishes(p, "act_check") /\ HasInactiveRow(id, d)) =>
                /\ (pc'[p] = "act_upsert") <=> (AC(id) < Cap(id))
                /\ AC(id) >= Cap(id) =>
                     /\ result'[p].code = 429
                     /\ licenses' = licenses
           /\ (Finishes(p, "act_commit") /\ HasInactiveRow(id, d)) =>
                /\ \A l \in LicenseRows(licenses', id, d) : l.status = "active"
                /\ LicenseRows(licenses', id, d) # {}
                /\ ActivatedCount(licenses', id) = AC(id) + 1]_vars

\* the reactivation of a deactivated device was refused while another device
\* of the tenant holds the only seat
C4_Witness ==
    \E p \in Procs :
        /\ Served(p, "activate", 429)
        /\ \E a \in agencies :
            /\ a.api_key = req[p].key
            /\ HasInactiveRow(a.id, req[p].device_id)
            /\ AC(a.id) = Cap(a.id)
            /\ AC(a.id) >= 1

\* C5: there is at most one ledger row per (tenant, device); an activate of a
\* device that is already active is admitted, and its commit leaves exactly one
\* row for the pair, active, with the metadata of this call, and the tenant's
\* active count unchanged.
C5_IdempotentReactivation ==
    /\ [](\A id \in AgencyIds, d \in DeviceNums : Cardinality(LicenseRows(licenses, id, d)) <= 1)
    /\ [][\A p \in Procs :
            LET id == loc[p].agency_id
                d == req[p].device_id
            IN /\ (Finishes(p, "act_check") /\ IsAlreadyActive(licenses, id, d))
                    => pc'[p] = "act_upsert"
               /\ (Finishes(p, "act_commit") /\ IsAlreadyActive(licenses, id, d)) =>
                    /\ LicenseRows(licenses', id, d) =
                         {[agency_id |-> id, device_id |-> d, meta |-> req[p].meta,
                           status |-> "active"]}
                    /\ ActivatedCount(licenses', id) = AC(id)
                    /\ result'[p].code = 200]_vars

\* two activations of one device with different metadata both answered 200 and
\* the single row carries the metadata of one of them
C5_Witness ==
    \E p, q \in Procs :
        /\ p # q
        /\ Served(p, "activate", 200)
        /\ Served(q, "activate", 200)
        /\ req[p].key = req[q].key
        /\ req[p].device_id = req[q].device_id
        /\ req[p].meta # req[q].meta
        /\ \E a \in agencies :
            /\ a.api_key = req[p].key
            /\ Cardinality(LicenseRows(licenses, a.id, req[p].device_id)) = 1
            /\ AC(a.id) = 1

\* C6: in every committed state at most one version of a tenant has
\* is_latest = TRUE, also with concurrent set_latest_version calls.
C6_AtMostOneLatest ==
    \A id \in AgencyIds : Cardinality(LatestRows(versions, id)) <= 1

\* C7: with requests served one at a time, a committed set_latest_version
\* leaves exactly one latest row for the tenant, that of the version just
\* given; no other operation but a delete of the tenant changes which rows
\* are latest; get_latest returns the version of the latest row.
C7_LatestIsMostRecent ==
    [][\A p \in Procs :
        LET id == loc[p].agency_id IN
        /\ Finishes(p, "sl_commit") =>
             /\ {r.version_number : r \in LatestRows(versions', id)} = {req[p].version_number}
             /\ Cardinality(LatestRows(versions', id)) = 1
             /\ result'[p].code = 200
        /\ (\A id2 \in AgencyIds : LatestRows(versions', id2) = LatestRows(versions, id2))
             \/ \E q \in Procs : \/ Finishes(q, "sl_commit")
                                 \/ pc[q] = "idle" /\ req'[q].op = "delete_agency"
        /\ (Finishes(p, "gl_select") /\ LatestRows(versions, id) # {}) =>
             \E r \in LatestRows(versions, id) :
                result'[p] = [code |-> 200, body |-> ToString(r.version_number)]]_vars

\* set_latest_version moved the flag from an older version to the one given
C7_Witness ==
    \E p \in Procs :
        /\ Served(p, "set_latest_version", 200)
        /\ \E r \in versions :
            /\ r.agency_id = req[p].agency_id
            /\ r.version_number # req[p].version_number
            /\ ~r.is_latest
        /\ \E r \in versions :
            /\ r.agency_id = req[p].agency_id
            /\ r.version_number = req[p].version_number
            /\ r.is_latest

\* C8: set_total_licenses changes no ledger row, also when it lowers the cap
\* below the active count; while active_count >= total_seats every activate of
\* a device that is not active is answered 429 and changes no ledger row.
C8_LoweredCapBlocksActivation ==
    [][\A p \in Procs :
        /\ (pc[p] = "idle" /\ req'[p].op = "set_total_licenses") => licenses' = licenses
        /\ (/\ Finishes(p, "act_check")
            /\ ~IsAlreadyActive(licenses, loc[p].agency_id, req[p].device_id)
            /\ AC(loc[p].agency_id) >= Cap(loc[p].agency_id)) =>
                /\ pc'[p] = "done"
                /\ result'[p].code = 429
                /\ licenses' = licenses]_vars

\* set_total_licenses has just put the cap below the number of active rows
C8_Witness ==
    \E p \in Procs :
        /\ Served(p, "set_total_licenses", 200)
        /\ Cap(req[p].agency_id) = req[p].new_total
        /\ AC(req[p].agency_id) > req[p].new_total

\* C9: every committed tenant has exactly one settings row, inserted with
\* total_licenses = 25 by the commit that creates the tenant; a create_agency
\* whose settings insert fails publishes no tenant row and keeps nothing pending.
C9_TenantCreationAtomic ==
    /\ [](\A a \in agencies : Cardinality({s \in settings : s.agency_id = a.id}) = 1)
    /\ [][\A p \in Procs :
            /\ Finishes(p, "ca_commit") =>
                 /\ AgencyExists(agencies', loc[p].agency_id)
                 /\ {s \in settings' : s.agency_id = loc[p].agency_id} =
                      {[agency_id |-> loc[p].agency_id, total_licenses |-> DefaultSeats]}
            /\ (Finishes(p, "ca_insert_settings") /\ pc'[p] = "done") =>
                 /\ result'[p].code = 500
                 /\ agencies' = agencies
                 /\ ~AgencyExists(agencies', loc[p].agency_id)
                 /\ tx'[p] = NoTx]_vars

\* a create_agency failed after its agency row was inserted, while another
\* tenant exists
C9_Witness ==
    \E p \in Procs :
        /\ Served(p, "create_agency", 500)
        /\ agencies # {}
        /\ nextId = 3

RowsOf(st, lic, vs, id) ==
    {s \in st : s.agency_id = id} \cup {l \in lic : l.agency_id = id}
        \cup {r \in vs : r.agency_id = id}

\* C10: every settings, licenses and versions row refers to an existing
\* agency in every committed state, and a delete_agency answered 200 leaves no
\* row of the tenant, also when it interleaves with other requests.
C10_CascadeAndReferentialIntegrity ==
    /\ [](\A r \in settings \cup licenses \cup versions : AgencyExists(agencies, r.agency_id))
    /\ [][\A p \in Procs :
            (pc[p] = "idle" /\ req'[p].op = "delete_agency" /\ result'[p].code = 200) =>
                /\ RowsOf(settings', licenses', versions', req'[p].agency_id) = {}
                /\ ~AgencyExists(agencies', req'[p].agency_id)]_vars

\* a tenant was deleted while an activate for it was between its check and its
\* upsert
C10_Witness ==
    \E p, q \in Procs :
        /\ Served(p, "delete_agency", 200)
        /\ pc[q] = "act_upsert"
        /\ loc[q].agency_id = req[p].agency_id
        /\ ~AgencyExists(agencies, req[p].agency_id)

\* C11: the check answers from the ledger row of (tenant, device): "not
\* licensed" when there is no row, "active" when the row's status is active,
\* "deactivated by an administrator" for a row with any other status; and a
\* successful activate leaves the row active, so that the device is unlicensed
\* before its first activate and active after it.
C11_TriStateCheck ==
    [][\A p \in Procs :
        /\ Finishes(p, "chk_select") =>
              LET rows == {l \in licenses : l.agency_id = loc[p].agency_id
                                            /\ l.device_id = req[p].device_id}
              IN /\ result'[p].code = 200
                 /\ rows = {} => result'[p].body = "This device has not been licensed."
                 /\ (\E l \in rows : l.status = "active") =>
                        result'[p].body = "License is active."
                 /\ (rows # {} /\ \A l \in rows : l.status # "active") =>
                        result'[p].body = "This license has been deactivated by an administrator."
        /\ Finishes(p, "act_commit") =>
              \E l \in licenses' : /\ l.agency_id = loc[p].agency_id
                                    /\ l.device_id = req[p].device_id
                                    /\ l.status = "active"]_vars

\* a check answered "active" for a device whose row is active
C11_Witness ==
    \E p \in Procs :
        /\ Served(p, "check", 200)
        /\ result[p].body = "License is active."
        /\ IsAlreadyActive(licenses, get_agency_id_from_api_key(agencies, req[p].key),
                           req[p].device_id)

\* C12: list, create and delete agency, the status report, set total
\* licenses, list versions and set latest version, called with an admin
\* credential other than the configured secret, answer 403 at once and leave
\* every table, the id sequence and the caller's transaction untouched.
C12_AdminGate ==
    [][\A p \in Procs :
        (/\ pc[p] = "idle"
         /\ req'[p].op \in {"get_agencies", "create_agency", "delete_agency",
                             "get_agency_status", "set_total_licenses", "get_versions",
                             "set_latest_version"}
         /\ req'[p].admin # SUPER_ADMIN_KEY)
        => /\ pc'[p] = "done"
           /\ result'[p].code = 403
           /\ db' = db
           /\ nextId' = nextId
           /\ tx'[p] = NoTx]_vars

\* a delete of an existing tenant that has a ledger row was refused for its
\* credential, and the tenant and the row are still there
C12_Witness ==
    \E p \in Procs :
        /\ Served(p, "delete_agency", 403)
        /\ req[p].admin # SUPER_ADMIN_KEY
        /\ AgencyExists(agencies, req[p].agency_id)
        /\ \E l \in licenses : l.agency_id = req[p].agency_id

\* C13 as stated: a ledger row is removed by no operation but the admin
\* bulk delete, and only when its status is inactive; no operation removes an
\* active row.
C13_RemovedOnlyByBulkDeleteInactive ==
    [][\A l \in licenses :
        (~\E m \in licenses' : m.agency_id = l.agency_id /\ m.device_id = l.device_id)
        => /\ l.status = "inactive"
           /\ \E p \in Procs : pc[p] = "idle" /\ req'[p].op = "bulk_delete_inactive"]_vars

\* C13, amended: a ledger row is removed only by the admin bulk delete that
\* lists its device, and then only when its status is inactive, or by the
\* cascade of a successful delete of its own agency, which removes the agency's
\* rows whatever their status; a bulk delete changes no row that it keeps.
C13_RemovedOnlyByBulkDeleteOrCascade ==
    [][/\ \A l \in licenses :
            (~\E m \in licenses' : m.agency_id = l.agency_id /\ m.device_id = l.device_id)
            => \E p \in Procs :
                 /\ pc[p] = "idle"
                 /\ \/ /\ req'[p].op = "bulk_delete_inactive"
                       /\ req'[p].agency_id = l.agency_id
                       /\ l.device_id \in req'[p].devices
                       /\ l.status = "inactive"
                    \/ /\ req'[p].op = "delete_agency"
                       /\ req'[p].agency_id = l.agency_id
                       /\ result'[p].code = 200
       /\ \A p \in Procs :
            (pc[p] = "idle" /\ req'[p].op = "bulk_delete_inactive") => licenses' \subseteq licenses]_vars

\* a bulk delete that listed an active and an inactive device removed one row,
\* and the active row of the other listed device is still there
C13_Witness ==
    \E p \in Procs :
        /\ Served(p, "bulk_delete_inactive", 200)
        /\ result[p].body = "1"
        /\ Cardinality(req[p].devices) = 2
        /\ \E l \in licenses : /\ l.agency_id = req[p].agency_id
                                /\ l.device_id \in req[p].devices
                                /\ l.status = "active"

\* C14: an admin may always deactivate: while a worker is free, the bulk
\* status change to inactive of any active row can be taken and is answered
\* 200, whatever the tenant's cap and count; it turns every listed active row
\* inactive and lowers the tenant's active count by the number of rows it
\* turned (by one for one device); and no row ever appears with a status other
\* than active, nor holds a status other than active or inactive, so that a
\* device goes absent -> active <-> inactive.
C14_DeactivationAlwaysAvailable ==
    /\ [](\A l \in licenses :
            (l.status = "active" /\ pc[1] = "idle" /\ served < MaxSeqRequests)
            => ENABLED (/\ bulk_set_status_of(1, SUPER_ADMIN_KEY, l.agency_id, {l.device_id}, "inactive")
                        /\ result'[1].code = 200))
    /\ [][/\ \A p \in Procs :
              (/\ pc[p] = "idle"
               /\ req'[p].op = "bulk_set_status"
               /\ req'[p].admin = SUPER_ADMIN_KEY
               /\ req'[p].status = "inactive")
              => LET hit == {l \in licenses : /\ l.agency_id = req'[p].agency_id
                                              /\ l.device_id \in req'[p].devices
                                              /\ l.status = "active"}
                 IN /\ result'[p].code = 200
                    /\ \A l \in hit : [l EXCEPT !.status = "inactive"] \in licenses'
                    /\ ActivatedCount(licenses', req'[p].agency_id)
                         = ActivatedCount(licenses, req'[p].agency_id) - Cardinality(hit)
          /\ \A m \in licenses' :
              /\ m.status \in {"active", "inactive"}
              /\ m.status = "inactive" =>
                    \E l \in licenses : l.agency_id = m.agency_id /\ l.device_id = m.device_id]_vars

\* one device of a tenant above its cap was deactivated: its row is inactive
\* and the tenant still has more active rows than seats
C14_Witness ==
    \E p \in Procs :
        /\ Served(p, "bulk_set_status", 200)
        /\ req[p].status = "inactive"
        /\ \E d \in req[p].devices : HasInactiveRow(req[p].agency_id, d)
        /\ AC(req[p].agency_id) > Cap(req[p].agency_id)

\* C15: in every reachable state, also when two create_agency calls with the
\* same name run concurrently, no two agencies share a name or an api key; and
\* a create_agency whose name is already in the table is answered 409 and
\* leaves every table as it was.
C15_UniqueTenantNames ==
    /\ [](\A a, b \in agencies : (a.name = b.name \/ a.api_key = b.api_key) => a = b)
    /\ [][\A p \in Procs :
            (Finishes(p, "ca_insert_agency") /\ \E a \in agencies : a.name = req[p].name)
            => /\ pc'[p] = "done"
               /\ result'[p].code = 409
               /\ db' = db
               /\ tx'[p] = NoTx]_vars

\* two workers were asked to create the same name: one answered 201, the other
\* 409, and the table holds the name once
C15_Witness ==
    \E p, q \in Procs :
        /\ Served(p, "create_agency", 201)
        /\ Served(q, "create_agency", 409)
        /\ req[p].name = req[q].name
        /\ Cardinality({a \in agencies : a.name = req[p].name}) = 1

\* C16: no step of a check, whether the api key is valid or not and whether
\* the device id is present or not, changes a row of any table, the id
\* sequence, or leaves a write pending.
C16_CheckIsReadOnly ==
    [][\A p \in Procs :
        (\/ pc[p] = "idle" /\ req'[p].op = "check"
         \/ Finishes(p, "chk_select"))
        => /\ db' = db
           /\ nextId' = nextId
           /\ tx'[p] = NoTx]_vars

\* with a ledger that holds a row, one check was refused for its api key and
\* another, with a valid key, answered for a device that has no row
C16_Witness ==
    \E p, q \in Procs :
        /\ Served(p, "check", 403)
        /\ Served(q, "check", 200)
        /\ result[q].body = "This device has not been licensed."
        /\ licenses # {}
        /\ LicenseRows(licenses, get_agency_id_from_api_key(agencies, req[q].key),
                       req[q].device_id) = {}

\* C17: a request that ends in a store failure (500) leaves every table as
\* it was committed before the request and no write pending: a set latest
\* version whose upsert fails after its clear ran leaves the former latest
\* version latest, and a failed activate or create agency leaves no row.
C17_StoreFailureRollsBack ==
    [][\A p \in Procs :
        (pc[p] # "done" /\ pc'[p] = "done" /\ result'[p].code = 500)
        => /\ db' = db
           /\ tx'[p] = NoTx
           /\ pc[p] = "sl_upsert" =>
                 LatestRows(versions', loc[p].agency_id) = LatestRows(versions, loc[p].agency_id)]_vars

\* a set latest version for another version failed, and the version that was
\* latest is still latest
C17_Witness ==
    \E p \in Procs :
        /\ Served(p, "set_latest_version", 500)
        /\ \E r \in LatestRows(versions, req[p].agency_id) :
              r.version_number # req[p].version_number

\* C18: once a set latest version has committed for a tenant, and while the
\* tenant exists, the committed versions table always holds a latest row for
\* it, and every get latest version for it, also one that reads while a later
\* set latest version is between its clear and its commit, answers the number
\* of a published version and never the sentinel.
C18_NoZeroLatestWindow ==
    /\ [](\A id \in AgencyIds :
            (\E r \in versions : r.agency_id = id) => LatestRows(versions, id) # {})
    /\ [][\A p \in Procs :
            (Finishes(p, "gl_select") /\ \E r \in versions : r.agency_id = loc[p].agency_id)
            => /\ result'[p].code = 200
               /\ result'[p].body # NoVersionPublished
               /\ \E r \in versions : /\ r.agency_id = loc[p].agency_id
                                       /\ result'[p].body = ToString(r.version_number)]_vars

\* a get latest version was answered with the published version while a set
\* latest version for another version of the same tenant has cleared that row
\* and not yet committed
C18_Witness ==
    \E p, q \in Procs :
        /\ Served(p, "get_latest", 200)
        /\ pc[q] = "sl_commit"
        /\ loc[q].agency_id = get_agency_id_from_api_key(agencies, req[p].key)
        /\ \E c \in tx[q].clear :
              /\ result[p].body = ToString(c.version_number)
              /\ c.version_number # req[q].version_number

\* C19: activate, check and get latest version run for the tenant that owns
\* the presented api key and for no other: none of their steps changes the
\* agencies table or a settings, licenses or versions row of another tenant,
\* and an activate is answered 429 only when the tenant's own active rows are
\* at or above the tenant's own cap, whatever the other tenants hold.
C19_TenantIsolation ==
    [][\A p \in Procs :
        /\ (pc[p] = "idle" /\ req'[p].op \in {"activate", "check", "get_latest"})
            => /\ db' = db
               /\ pc'[p] # "done" =>
                     \E a \in agencies : a.api_key = req'[p].key /\ a.id = loc'[p].agency_id
        /\ (pc[p] \notin {"idle", "done"} /\ req[p].op \in {"activate", "check", "get_latest"})
            => /\ agencies' = agencies
               /\ \A id \in AgencyIds \ {loc[p].agency_id} :
                     RowsOf(settings', licenses', versions', id) = RowsOf(settings, licenses, versions, id)
               /\ (Finishes(p, "act_check") /\ result'[p].code = 429) =>
                     LET own == {l \in licenses : l.agency_id = loc[p].agency_id /\ l.status = "active"}
                     IN \A s \in settings :
                          s.agency_id = loc[p].agency_id => Cardinality(own) >= s.total_licenses]_vars

\* the same device is active under two tenants, as two rows; the second of
\* them was just activated, with a 200, while the other tenant was at or above
\* its cap
C19_Witness ==
    \E p \in Procs : \E a, b \in agencies :
        /\ a.id # b.id
        /\ Served(p, "activate", 200)
        /\ req[p].key = a.api_key
        /\ IsAlreadyActive(licenses, a.id, req[p].device_id)
        /\ IsAlreadyActive(licenses, b.id, req[p].device_id)
        /\ AC(b.id) >= Cap(b.id)

\* C20: the ledger never holds two rows for one (tenant, device); a
\* committing activate leaves exactly one row for its device, active, and
\* raises the tenant's active count by one when the device had no active row
\* and by nothing when it had one: of two interleaved activates for a device
\* with no row the first adds the row and the second rewrites it, one row and
\* one more active in all.
C20_ConcurrentActivationOfOneDevice ==
    /\ [](\A l, m \in licenses :
            (l.agency_id = m.agency_id /\ l.device_id = m.device_id) => l = m)
    /\ [][\A p \in Procs :
            Finishes(p, "act_commit") =>
              LET before == {l \in licenses : l.agency_id = loc[p].agency_id
                                              /\ l.device_id = req[p].device_id}
                  after == {l \in licenses' : l.agency_id = loc[p].agency_id
                                              /\ l.device_id = req[p].device_id}
              IN /\ Cardinality(after) = 1
                 /\ \A l \in after : l.status = "active"
                 /\ ActivatedCount(licenses', loc[p].agency_id)
                      = ActivatedCount(licenses, loc[p].agency_id)
                          + (IF \E l \in before : l.status = "active" THEN 0 ELSE 1)]_vars

\* after one create agency, two activates for the same device ran interleaved:
\* the first has committed the row, the second counted no active row before
\* that and now holds its own upsert of the same row, ready to commit
C20_Witness ==
    \E p, q \in Procs :
        /\ served = 3
        /\ Served(p, "activate", 200)
        /\ pc[q] = "act_commit"
        /\ req[q].key = req[p].key
        /\ req[q].device_id = req[p].device_id
        /\ loc[q].activated_count = 0
        /\ AC(loc[q].agency_id) = 1
        /\ Cardinality(licenses) = 1

====
